---- MODULE Spec2Model ----
(***************************************************************************)
(* The embedding engine of lab1-pdf-processing (class Embedder): cache     *)
(* lookup by fingerprint, batching, retry with backoff, statistics and     *)
(* the cache file.                                                         *)
(*                                                                         *)
(* Strings are sequences of character codes (printable ASCII).  An         *)
(* Optional value is a sequence of length 0 (None) or 1.                   *)
(***************************************************************************)
EXTENDS Integers, Sequences, FiniteSets, TLC

VARIABLES
    model,            \* Embedder.model
    dimension,        \* Embedder.dimension
    batch_size,       \* Embedder.batch_size
    max_retries,      \* Embedder.max_retries
    retry_delay,      \* Embedder.retry_delay, in units of time
    cache,            \* Embedder.cache: fingerprint -> entry
    disk,             \* embeddings_cache.json: absent, not loadable, or the mapping it holds
    stats,            \* Embedder.stats
    chunks,           \* the caller's list of Chunk objects
    chunks_to_embed,  \* embed_chunks: the pending list, as indices into chunks
    i,                \* embed_chunks: offset of the current batch in chunks_to_embed
    retries,          \* _call_api_with_retry: the local retries counter
    delay,            \* _call_api_with_retry: the local delay
    pc,               \* "idle", "call" (in the batch loop) or "returned" (just returned)
    result,           \* None, or the list the last embed_chunks call returned
    raised,           \* TRUE when an exception left the last embed_chunks call
    start,            \* history: list, statistics, cache, file and model at the start of the call
    sent,             \* history: offset, units and outcome of every remote attempt of the call
    sleeps,           \* history: every time.sleep of the call, with the attempt it follows
    outcome,          \* history: "ok" or "failed" for every finished batch of the call
    hits,             \* history: indices served from the cache in the call
    last,             \* history: summary of the last call that ended
    prev,             \* history: summary of the call before the current one
    ncalls,           \* history: embed_chunks calls on this engine instance
    total_calls,      \* history: embed_chunks calls in the run
    errors,           \* history: failed remote attempts in the run
    old_disk,         \* history: the cache file as it was before the last flush
    driver,           \* embed_existing_chunks.py / embed_hybrid_chunks.py: position and files of main
    keys,             \* the fingerprint of every unit of the run (computed once)
    probe,            \* specifications of single functions: the arguments and the result
    parked,           \* a second Embedder over the same cache file, while the other one runs
    pipeline          \* pipeline_orchestrator.py: the orchestrator, its files and its position in run

vars == <<model, dimension, batch_size, max_retries, retry_delay, cache, disk, stats, chunks,
          chunks_to_embed, i, retries, delay, pc, result, raised, start, sent, sleeps, outcome,
          hits, last, prev, ncalls, total_calls, errors, old_disk, driver, keys, probe, parked,
          pipeline>>

engine == <<model, dimension, batch_size, max_retries, retry_delay>>

history == <<start, sent, sleeps, outcome, hits>>

others == <<driver, keys, probe, parked, pipeline>>

None == <<>>
Some(v) == <<v>>

----------------------------------------------------------------------------
(* hashlib.md5(...).hexdigest(), RFC 1321.  A 32-bit word is a pair        *)
(* <<high 16 bits, low 16 bits>>.                                          *)

RECURSIVE Pow2(_)
Pow2(n) == IF n = 0 THEN 1 ELSE 2 * Pow2(n - 1)

RECURSIVE And16(_, _)
And16(a, b) == IF a = 0 \/ b = 0 THEN 0 ELSE (a % 2) * (b % 2) + 2 * And16(a \div 2, b \div 2)

Or16(a, b) == a + b - And16(a, b)

Xor16(a, b) == a + b - 2 * And16(a, b)

Not16(a) == (Pow2(16) - 1) - a

WAnd(a, b) == <<And16(a[1], b[1]), And16(a[2], b[2])>>

WOr(a, b) == <<Or16(a[1], b[1]), Or16(a[2], b[2])>>

WXor(a, b) == <<Xor16(a[1], b[1]), Xor16(a[2], b[2])>>

WNot(a) == <<Not16(a[1]), Not16(a[2])>>

WAdd(a, b) == <<(a[1] + b[1] + ((a[2] + b[2]) \div Pow2(16))) % Pow2(16), (a[2] + b[2]) % Pow2(16)>>

Rotl16(a, s) ==
    IF s = 0 THEN a
    ELSE <<((a[1] * Pow2(s)) % Pow2(16)) + (a[2] \div Pow2(16 - s)),
           ((a[2] * Pow2(s)) % Pow2(16)) + (a[1] \div Pow2(16 - s))>>

WRotl(a, s) == IF s >= 16 THEN Rotl16(<<a[2], a[1]>>, s - 16) ELSE Rotl16(a, s)

Md5K == <<
    <<55146, 42104>>, <<59591, 46934>>, <<9248, 28891>>, <<49597, 52974>>,
    <<62844, 4015>>, <<18311, 50730>>, <<43056, 17939>>, <<64838, 38145>>,
    <<27008, 39128>>, <<35652, 63407>>, <<65535, 23473>>, <<35164, 55230>>,
    <<27536, 4386>>, <<64920, 29075>>, <<42617, 17294>>, <<18868, 2081>>,
    <<63006, 9570>>, <<49216, 45888>>, <<9822, 23121>>, <<59830, 51114>>,
    <<54831, 4189>>, <<580, 5203>>, <<55457, 59009>>, <<59347, 64456>>,
    <<8673, 52710>>, <<49975, 2006>>, <<62677, 3463>>, <<17754, 5357>>,
    <<43491, 59653>>, <<64751, 41976>>, <<26479, 729>>, <<36138, 19594>>,
    <<65530, 14658>>, <<34673, 63105>>, <<28061, 24866>>, <<64997, 14348>>,
    <<42174, 59972>>, <<19422, 53161>>, <<63163, 19296>>, <<48831, 48240>>,
    <<10395, 32454>>, <<60065, 10234>>, <<54511, 12421>>, <<1160, 7429>>,
    <<55764, 53305>>, <<59099, 39397>>, <<8098, 31992>>, <<50348, 22117>>,
    <<62505, 8772>>, <<17194, 65431>>, <<43924, 9127>>, <<64659, 41017>>,
    <<25947, 22979>>, <<36620, 52370>>, <<65519, 62589>>, <<34180, 24017>>,
    <<28584, 32335>>, <<65068, 59104>>, <<41729, 17172>>, <<19976, 4513>>,
    <<63315, 32386>>, <<48442, 62005>>, <<10967, 53947>>, <<60294, 54161>>>>

Md5S == <<
    7, 12, 17, 22, 7, 12, 17, 22, 7, 12, 17, 22, 7, 12, 17, 22,
    5, 9, 14, 20, 5, 9, 14, 20, 5, 9, 14, 20, 5, 9, 14, 20,
    4, 11, 16, 23, 4, 11, 16, 23, 4, 11, 16, 23, 4, 11, 16, 23,
    6, 10, 15, 21, 6, 10, 15, 21, 6, 10, 15, 21, 6, 10, 15, 21>>

Md5Init == <<<<26437, 8961>>, <<61389, 43913>>, <<39098, 56574>>, <<4146, 21622>>>>

Md5Pad(msg) ==
    LET n == Len(msg)
        z == (119 - n) % 64
        bits == 8 * n
    IN msg \o <<128>> \o [k \in 1..z |-> 0]
           \o <<bits % 256, (bits \div 256) % 256, (bits \div 65536) % 256, 0, 0, 0, 0, 0>>

Md5Word(blk, j) == <<blk[4 * j + 3] + 256 * blk[4 * j + 4], blk[4 * j + 1] + 256 * blk[4 * j + 2]>>

Md5Round(st, blk, r) ==
    LET A == st[1]
        B == st[2]
        C == st[3]
        D == st[4]
        F == IF r < 16 THEN WOr(WAnd(B, C), WAnd(WNot(B), D))
             ELSE IF r < 32 THEN WOr(WAnd(D, B), WAnd(WNot(D), C))
             ELSE IF r < 48 THEN WXor(B, WXor(C, D))
             ELSE WXor(C, WOr(B, WNot(D)))
        g == IF r < 16 THEN r
             ELSE IF r < 32 THEN (5 * r + 1) % 16
             ELSE IF r < 48 THEN (3 * r + 5) % 16
             ELSE (7 * r) % 16
        T == WAdd(WAdd(F, A), WAdd(Md5K[r + 1], Md5Word(blk, g)))
    IN <<D, WAdd(B, WRotl(T, Md5S[r + 1])), B, C>>

\* Rounds lo .. hi-1; the halves are evaluated one after the other (the
\* bound variable h holds the value of the first half).
RECURSIVE Md5Rounds(_, _, _, _)
Md5Rounds(st, blk, lo, hi) ==
    IF hi = lo + 1 THEN Md5Round(st, blk, lo)
    ELSE CHOOSE r \in {Md5Rounds(h, blk, (lo + hi) \div 2, hi) :
                           h \in {Md5Rounds(st, blk, lo, (lo + hi) \div 2)}} : TRUE

Md5Block(st, blk) ==
    LET r == Md5Rounds(st, blk, 0, 64)
    IN [k \in 1..4 |-> WAdd(st[k], r[k])]

RECURSIVE Md5Blocks(_, _)
Md5Blocks(st, padded) ==
    IF Len(padded) = 0 THEN st
    ELSE Md5Blocks(Md5Block(st, SubSeq(padded, 1, 64)), SubSeq(padded, 65, Len(padded)))

HexDigit(n) == IF n < 10 THEN 48 + n ELSE 87 + n

WordHex(w) ==
    LET bytes == <<w[2] % 256, w[2] \div 256, w[1] % 256, w[1] \div 256>>
    IN [k \in 1..8 |-> HexDigit(IF k % 2 = 1 THEN bytes[(k + 1) \div 2] \div 16
                                 ELSE bytes[k \div 2] % 16)]

md5_hexdigest(msg) ==
    LET st == Md5Blocks(Md5Init, Md5Pad(msg))
    IN WordHex(st[1]) \o WordHex(st[2]) \o WordHex(st[3]) \o WordHex(st[4])

----------------------------------------------------------------------------
(* json.dumps(metadata, sort_keys=True) on a mapping from strings to       *)
(* strings and non-negative integers.  A metadata mapping is the sequence  *)
(* of its <<key, value>> items in insertion order (keys distinct); a value *)
(* is [t |-> "str", v |-> characters] or [t |-> "int", v |-> <<n>>].        *)

StrVal(s) == [t |-> "str", v |-> s]

IntVal(n) == [t |-> "int", v |-> <<n>>]

RECURSIVE JsonEscape(_)
JsonEscape(s) ==
    IF s = <<>> THEN <<>>
    ELSE (IF Head(s) \in {34, 92} THEN <<92, Head(s)>> ELSE <<Head(s)>>) \o JsonEscape(Tail(s))

JsonString(s) == <<34>> \o JsonEscape(s) \o <<34>>

RECURSIVE JsonInt(_)
JsonInt(n) == IF n < 10 THEN <<48 + n>> ELSE JsonInt(n \div 10) \o <<48 + (n % 10)>>

JsonValue(val) == IF val.t = "str" THEN JsonString(val.v) ELSE JsonInt(val.v[1])

RECURSIVE StrLess(_, _)
StrLess(a, b) ==
    IF b = <<>> THEN FALSE
    ELSE IF a = <<>> THEN TRUE
    ELSE IF Head(a) # Head(b) THEN Head(a) < Head(b)
    ELSE StrLess(Tail(a), Tail(b))

RECURSIVE InsertItem(_, _)
InsertItem(item, sorted) ==
    IF sorted = <<>> THEN <<item>>
    ELSE IF StrLess(item[1], Head(sorted)[1]) THEN <<item>> \o sorted
    ELSE <<Head(sorted)>> \o InsertItem(item, Tail(sorted))

RECURSIVE SortItems(_)
SortItems(items) == IF items = <<>> THEN <<>> ELSE InsertItem(Head(items), SortItems(Tail(items)))

RECURSIVE JsonItems(_)
JsonItems(items) ==
    IF items = <<>> THEN <<>>
    ELSE JsonString(Head(items)[1]) \o <<58, 32>> \o JsonValue(Head(items)[2])
         \o (IF Tail(items) = <<>> THEN <<>> ELSE <<44, 32>> \o JsonItems(Tail(items)))

\* json.dumps(metadata) without sort_keys: the items in insertion order.
json_dumps_unsorted(metadata) == <<123>> \o JsonItems(metadata) \o <<125>>

json_dumps(metadata) == <<123>> \o JsonItems(SortItems(metadata)) \o <<125>>

get_cache_key(chunk) == md5_hexdigest(chunk.content \o <<58>> \o json_dumps(chunk.metadata))

----------------------------------------------------------------------------
(* Bounds of the model.                                                    *)

MaxLen == 3          \* longest list passed to embed_chunks
MaxBatchSize == 2    \* batch_size ranges over 1..MaxBatchSize
MaxRetries == 1      \* max_retries ranges over 0..MaxRetries
MaxDimension == 2    \* dimension ranges over 1..MaxDimension
MaxCalls == 2        \* embed_chunks calls in one run
MaxErrors == 3       \* failed remote attempts in one run

----------------------------------------------------------------------------
(* Chunks, configuration and the remote client.                            *)

Models == {"text-embedding-3-large", "text-embedding-3-small"}

ModelCode(m) == IF m = "text-embedding-3-large" THEN 1 ELSE 2

KeyPage == <<112, 97, 103, 101>>

TextA == <<97, 98, 99, 100>>

TextB == <<119, 120, 121, 122, 119, 120, 121, 122>>

Unit(text, meta) == [content |-> text, metadata |-> meta]

Units ==
    { Unit(TextA, <<<<KeyPage, IntVal(1)>>>>),
      Unit(TextA, <<<<KeyPage, IntVal(2)>>>>),
      Unit(TextB, <<<<KeyPage, IntVal(1)>>>>) }

\* A vector a chunk already carries when it is loaded from a chunk file
\* (load_chunks_from_json keeps the 'embeddings' item of the file).
PriorVector == <<0, 0, 0>>

Chunk(u, e) == [content |-> u.content, metadata |-> u.metadata, embeddings |-> e]

InputChunks ==
    { Chunk(Unit(TextA, <<<<KeyPage, IntVal(1)>>>>), None),
      Chunk(Unit(TextA, <<<<KeyPage, IntVal(2)>>>>), Some(PriorVector)),
      Chunk(Unit(TextB, <<<<KeyPage, IntVal(1)>>>>), None) }

InputLists == UNION {[1..n -> InputChunks] : n \in 0..MaxLen}

\* client.embeddings.create: one vector of the requested dimension per text,
\* in the order of the texts.
RemoteVector(text, m, d) == [j \in 1..d |-> 10 * ModelCode(m) + Len(text)]

RemoteEmbeddings(texts, m, d) == [k \in 1..Len(texts) |-> RemoteVector(texts[k], m, d)]

----------------------------------------------------------------------------
(* Embedder: cache and statistics.                                         *)

EmbeddingStats ==
    [total_chunks |-> 0, embedded_chunks |-> 0, cached_chunks |-> 0, failed_chunks |-> 0,
     total_tokens |-> 0, total_cost |-> 0, api_calls |-> 0, retries |-> 0]

\* Price of one token in units of 10^-8 dollars (0.00013 / 1000 dollars).
PRICE_PER_TOKEN == 13

\* The fingerprints of a set of units.
KeyTable(units) == [u \in units |-> get_cache_key(u)]

\* The fingerprint of a chunk of the run, looked up in the table.
CacheKey(chunk) == keys[Unit(chunk.content, chunk.metadata)]

\* embeddings_cache.json: absent, a text json.load cannot make a mapping of
\* (truncated, not JSON, unreadable: "invalid"), or a JSON object.  json.load
\* returns what json.dump wrote: an entry holds strings, integers and lists of
\* numbers only.
NoFile == [state |-> "absent", value |-> <<>>]

Damaged == [state |-> "invalid", value |-> <<>>]

File(c) == [state |-> "json", value |-> c]

\* A value of the cache file that is not an entry: the JSON number 3.
JunkEntry == [number |-> 3]

\* isinstance(entry, dict): the entries _cache_embedding writes have a model.
IsEntry(e) == "model" \in DOMAIN e

load_cache(file) == IF file.state = "json" THEN file.value ELSE <<>>

\* _save_cache without the write: the file stays as it is.
save_cache_skipped(c) == disk

save_cache(c) == File(c)

\* The lookup uses another key than _cache_embedding: the fingerprint
\* followed by the character 0.
is_cached_other_key(c, chunk) == Append(CacheKey(chunk), 48) \in DOMAIN c

is_cached(c, chunk) == CacheKey(chunk) \in DOMAIN c

\* cached_data.get raises AttributeError: the value under the fingerprint is
\* true and has no method get.
LookupRaises(c, chunk) == CacheKey(chunk) \in DOMAIN c /\ ~IsEntry(c[CacheKey(chunk)])

\* The lookup without the comparison of the model.
get_cached_embedding_any_model(c, chunk, m) ==
    IF CacheKey(chunk) \in DOMAIN c THEN Some(c[CacheKey(chunk)].embedding) ELSE None

get_cached_embedding(c, chunk, m) ==
    IF CacheKey(chunk) \in DOMAIN c /\ IsEntry(c[CacheKey(chunk)]) /\ c[CacheKey(chunk)].model = m
    THEN Some(c[CacheKey(chunk)].embedding)
    ELSE None

\* Python truth value of an Optional[List[float]].
Truthy(opt) == opt # None /\ Len(opt[1]) > 0

\* The embedding is not recorded.
cache_embedding_dropped(c, chunk, embedding, tokens, m, d) == c

cache_embedding(c, chunk, embedding, tokens, m, d) ==
    [k \in DOMAIN c \cup {CacheKey(chunk)} |->
        IF k = CacheKey(chunk)
        THEN [embedding |-> embedding, model |-> m, dimension |-> d, tokens |-> tokens,
              metadata |-> chunk.metadata]
        ELSE c[k]]

\* (len(text) + 3) // 4
calculate_tokens_rounded_up(text) == (Len(text) + 3) \div 4

calculate_tokens(text) == Len(text) \div 4

\* The cost of the tokens of the running call alone.
estimate_tokens_cost_of_call(tokens) == (tokens - start.stats.total_tokens) * PRICE_PER_TOKEN

estimate_tokens_cost(tokens) == tokens * PRICE_PER_TOKEN

\* sum(self._calculate_tokens(chunk.content) for chunk in chunks)
RECURSIVE SumTokens(_, _)
SumTokens(list, k) ==
    IF k > Len(list) THEN 0 ELSE calculate_tokens(list[k].content) + SumTokens(list, k + 1)

estimate_cost(list) == estimate_tokens_cost(SumTokens(list, 1))

\* The loop of validate_embeddings: the number of chunks counted invalid
\* among the chunks from the k-th on.  Every vector is a list.
RECURSIVE InvalidCount(_, _, _)
InvalidCount(list, k, d) ==
    IF k > Len(list) THEN 0
    ELSE (IF list[k].embeddings = None THEN 1
          ELSE IF Len(list[k].embeddings[1]) # d THEN 1
          ELSE 0) + InvalidCount(list, k + 1, d)

\* return valid_count > 0
validate_embeddings_some_valid(list, d) == InvalidCount(list, 1, d) < Len(list)

\* return invalid_count == 0
validate_embeddings(list, d) == InvalidCount(list, 1, d) = 0

----------------------------------------------------------------------------
(* embed_chunks.                                                           *)

\* The cache loop with a chunk left out of the pending list when a chunk with
\* the same fingerprint is pending already.
RECURSIVE CheckCache_deduplicated(_, _, _, _)
CheckCache_deduplicated(acc, k, c, m) ==
    IF k > Len(acc.chunks) THEN acc
    ELSE LET chunk == acc.chunks[k]
             cached_embedding == get_cached_embedding(c, chunk, m)
         IN IF LookupRaises(c, chunk)
            THEN [acc EXCEPT !.raised = TRUE]
            ELSE IF is_cached(c, chunk) /\ Truthy(cached_embedding)
            THEN CheckCache_deduplicated(
                     [acc EXCEPT !.chunks[k].embeddings = cached_embedding,
                                 !.stats.cached_chunks = @ + 1], k + 1, c, m)
            ELSE IF \E j \in 1..Len(acc.pending) :
                        CacheKey(acc.chunks[acc.pending[j]]) = CacheKey(chunk)
            THEN CheckCache_deduplicated(acc, k + 1, c, m)
            ELSE CheckCache_deduplicated([acc EXCEPT !.pending = Append(@, k)], k + 1, c, m)

\* The cache loop: acc = [chunks, pending, stats, raised] after the first
\* k - 1 chunks; it ends where _get_cached_embedding raises.
RECURSIVE CheckCache(_, _, _, _)
CheckCache(acc, k, c, m) ==
    IF k > Len(acc.chunks) THEN acc
    ELSE LET chunk == acc.chunks[k]
             cached_embedding == get_cached_embedding(c, chunk, m)
         IN IF LookupRaises(c, chunk)
            THEN [acc EXCEPT !.raised = TRUE]
            ELSE IF is_cached(c, chunk) /\ Truthy(cached_embedding)
            THEN CheckCache([acc EXCEPT !.chunks[k].embeddings = cached_embedding,
                                        !.stats.cached_chunks = @ + 1], k + 1, c, m)
            ELSE CheckCache([acc EXCEPT !.pending = Append(@, k)], k + 1, c, m)

\* chunks_to_embed[i:i + batch_size + 1]
Batch_one_more(pending, off, bs) ==
    SubSeq(pending, off + 1, IF off + bs + 1 < Len(pending) THEN off + bs + 1 ELSE Len(pending))

\* chunks_to_embed[i:i + batch_size]
Batch(pending, off, bs) ==
    SubSeq(pending, off + 1, IF off + bs < Len(pending) THEN off + bs ELSE Len(pending))

\* The loop with every embedding of the batch cached under the fingerprint of
\* the first chunk of the batch.
RECURSIVE StoreBatch_first_key(_, _, _, _, _, _)
StoreBatch_first_key(acc, batch, embeddings, k, m, d) ==
    IF k > Len(batch) \/ k > Len(embeddings) THEN acc
    ELSE LET chunk == acc.chunks[batch[k]]
             chunk_tokens == calculate_tokens(chunk.content)
         IN StoreBatch_first_key(
                [chunks |-> [acc.chunks EXCEPT ![batch[k]].embeddings = Some(embeddings[k])],
                 cache |-> cache_embedding(acc.cache, acc.chunks[batch[1]], embeddings[k],
                                           chunk_tokens, m, d),
                 stats |-> [acc.stats EXCEPT !.embedded_chunks = @ + 1,
                                             !.total_tokens = @ + chunk_tokens]],
                batch, embeddings, k + 1, m, d)

\* The loop over zip(batch, embeddings): acc = [chunks, cache, stats] after
\* the first k - 1 pairs.
RECURSIVE StoreBatch(_, _, _, _, _, _)
StoreBatch(acc, batch, embeddings, k, m, d) ==
    IF k > Len(batch) \/ k > Len(embeddings) THEN acc
    ELSE LET chunk == acc.chunks[batch[k]]
             chunk_tokens == calculate_tokens(chunk.content)
         IN StoreBatch([chunks |-> [acc.chunks EXCEPT ![batch[k]].embeddings = Some(embeddings[k])],
                        cache |-> cache_embedding(acc.cache, chunk, embeddings[k], chunk_tokens, m, d),
                        stats |-> [acc.stats EXCEPT !.embedded_chunks = @ + 1,
                                                    !.total_tokens = @ + chunk_tokens]],
                       batch, embeddings, k + 1, m, d)

\* The errors the remote call raises; "except Exception" in the batch loop
\* catches every one of them.
ErrorKinds == {"RateLimitError", "APIConnectionError", "APIError", "Exception"}

\* "except APIError" in place of "except Exception".
Caught_api_errors_only(kind) == kind = "APIError"

Caught(kind) == kind \in ErrorKinds

\* return chunks_to_embed
Returned_pending(list, pending) == [k \in 1..Len(pending) |-> list[pending[k]]]

\* return chunks
Returned(list, pending) == list

AllOk(outcomes) == \A k \in 1..Len(outcomes) : outcomes[k] = "ok"

NoCall ==
    [chunks |-> <<>>, stats |-> EmbeddingStats, cache |-> <<>>, file |-> NoFile, model |-> "",
     again |-> FALSE]

\* The summary of a call: whether every batch succeeded, the engine's model,
\* whether the cache file was written, whether the process was killed, and the
\* indices of the units of the batches that failed.
Summary(ok, m, flushed, failed) ==
    [ok |-> ok, model |-> m, flushed |-> flushed, killed |-> FALSE, failed |-> failed]

NoSummary == Summary(FALSE, "", FALSE, {})

\* The units of the batches that failed, by their indices in the list.
FailedUnits(pending, outcomes, bs) ==
    IF bs < 1 THEN {}
    ELSE {pending[j] : j \in {n \in 1..Len(pending) :
                                 /\ ((n - 1) \div bs) + 1 <= Len(outcomes)
                                 /\ outcomes[((n - 1) \div bs) + 1] = "failed"}}

NoHistory ==
    /\ start' = NoCall
    /\ sent' = <<>>
    /\ sleeps' = <<>>
    /\ outcome' = <<>>
    /\ hits' = {}

\* The end of embed_chunks after the batch loop: cost, cache file, return.
Finish(list, c, st, pending, outcomes) ==
    /\ chunks' = list
    /\ cache' = c
    /\ stats' = [st EXCEPT !.total_cost = estimate_tokens_cost(st.total_tokens)]
    /\ old_disk' = disk
    /\ disk' = save_cache(c)
    /\ result' = Some(Returned(list, pending))
    /\ pc' = "returned"
    /\ i' = 0
    /\ retries' = 0
    /\ delay' = 0
    /\ chunks_to_embed' = <<>>
    /\ raised' = FALSE
    /\ last' = Summary(batch_size >= 1 /\ AllOk(outcomes), model, TRUE,
                     FailedUnits(pending, outcomes, batch_size))

\* An exception leaves embed_chunks.
Raise(list, st) ==
    /\ chunks' = list
    /\ stats' = st
    /\ result' = None
    /\ raised' = TRUE
    /\ pc' = "returned"
    /\ i' = 0
    /\ retries' = 0
    /\ delay' = 0
    /\ chunks_to_embed' = <<>>
    /\ last' = Summary(FALSE, model, FALSE, {})
    /\ UNCHANGED <<cache, disk, old_disk>>

\* The chunks of the batch at offset i lose their metadata when the batch is
\* finished.
NextBatch_metadata_cleared(list, c, st, oc) ==
    LET batch == Batch(chunks_to_embed, i, batch_size)
        cleared == [k \in 1..Len(list) |->
                       IF \E j \in 1..Len(batch) : batch[j] = k
                       THEN [list[k] EXCEPT !.metadata = <<>>]
                       ELSE list[k]]
    IN /\ outcome' = Append(outcome, oc)
       /\ IF i + batch_size < Len(chunks_to_embed)
          THEN /\ chunks' = cleared
               /\ cache' = c
               /\ stats' = st
               /\ i' = i + batch_size
               /\ retries' = 0
               /\ delay' = retry_delay
               /\ UNCHANGED <<disk, old_disk, result, pc, chunks_to_embed, raised, last>>
          ELSE Finish(cleared, c, st, chunks_to_embed, Append(outcome, oc))

\* The batch at offset i is finished; go to the next one or finish the call.
NextBatch(list, c, st, oc) ==
    /\ outcome' = Append(outcome, oc)
    /\ IF i + batch_size < Len(chunks_to_embed)
       THEN /\ chunks' = list
            /\ cache' = c
            /\ stats' = st
            /\ i' = i + batch_size
            /\ retries' = 0
            /\ delay' = retry_delay
            /\ UNCHANGED <<disk, old_disk, result, pc, chunks_to_embed, raised, last>>
       ELSE Finish(list, c, st, chunks_to_embed, Append(outcome, oc))

\* "break" in place of "continue" in the except clause of the batch loop.
BatchFailed_break(kind, st) ==
    /\ outcome' = Append(outcome, "failed")
    /\ Finish(chunks, cache,
              [st EXCEPT !.failed_chunks = @ + Len(Batch(chunks_to_embed, i, batch_size))],
              chunks_to_embed, Append(outcome, "failed"))

\* _call_api_with_retry raised an error of this kind for the batch at offset i.
BatchFailed(kind, st) ==
    IF Caught(kind)
    THEN NextBatch(chunks, cache,
                   [st EXCEPT !.failed_chunks = @ + Len(Batch(chunks_to_embed, i, batch_size))],
                   "failed")
    ELSE /\ Raise(chunks, st)
         /\ UNCHANGED outcome

\* range(0, len(chunks_to_embed), batch_size) is empty.
EmptyRange(n, step) == n <= 0 \/ step < 0

Call(list, same) ==
    LET scan == CheckCache([chunks |-> list, pending |-> <<>>,
                            stats |-> [stats EXCEPT !.total_chunks = Len(list)],
                            raised |-> FALSE],
                           1, cache, model)
    IN /\ pc \in {"idle", "returned"}
       /\ total_calls < MaxCalls
       /\ total_calls' = total_calls + 1
       /\ ncalls' = ncalls + 1
       /\ start' = [chunks |-> list, stats |-> stats, cache |-> cache, file |-> disk,
                    model |-> model, again |-> same]
       /\ prev' = last
       /\ sent' = <<>>
       /\ sleeps' = <<>>
       /\ outcome' = <<>>
       /\ hits' = {k \in 1..Len(list) : \A j \in 1..Len(scan.pending) : scan.pending[j] # k}
       /\ IF scan.raised
          THEN \* AttributeError in the cache loop
               Raise(scan.chunks, scan.stats)
          ELSE IF scan.pending = <<>>
          THEN \* if not chunks_to_embed: return chunks
               /\ chunks' = scan.chunks
               /\ stats' = scan.stats
               /\ result' = Some(Returned(scan.chunks, scan.pending))
               /\ raised' = FALSE
               /\ pc' = "returned"
               /\ i' = 0
               /\ retries' = 0
               /\ delay' = 0
               /\ chunks_to_embed' = <<>>
               /\ last' = Summary(TRUE, model, FALSE, {})
               /\ UNCHANGED <<cache, disk, old_disk>>
          ELSE IF batch_size = 0
          THEN \* ZeroDivisionError in the computation of total_batches
               Raise(scan.chunks, scan.stats)
          ELSE IF EmptyRange(Len(scan.pending), batch_size)
          THEN \* the batch loop has no iteration
               Finish(scan.chunks, cache, scan.stats, scan.pending, <<>>)
          ELSE /\ chunks' = scan.chunks
               /\ stats' = scan.stats
               /\ result' = None
               /\ raised' = FALSE
               /\ pc' = "call"
               /\ i' = 0
               /\ retries' = 0
               /\ delay' = retry_delay
               /\ chunks_to_embed' = scan.pending
               /\ last' = last
               /\ UNCHANGED <<cache, disk, old_disk>>
       /\ UNCHANGED <<engine, errors, others>>

\* embed_chunks on a list the caller has just built or loaded: the first call
\* of a run.
EmbedChunks == total_calls = 0 /\ \E list \in InputLists : Call(list, FALSE)

\* embed_chunks once more on the list of the call before.
EmbedAgain == total_calls > 0 /\ Call(chunks, TRUE)

\* The record of one attempt of the remote call for the batch at offset i.
Attempt(oc) ==
    [batch |-> i, units |-> Batch(chunks_to_embed, i, batch_size), outcome |-> oc]

\* One attempt of the remote call succeeds.
RemoteSuccess ==
    LET batch == Batch(chunks_to_embed, i, batch_size)
        batch_texts == [k \in 1..Len(batch) |-> chunks[batch[k]].content]
        embeddings == RemoteEmbeddings(batch_texts, model, dimension)
        done == StoreBatch([chunks |-> chunks, cache |-> cache,
                            stats |-> [stats EXCEPT !.api_calls = @ + 1]],
                           batch, embeddings, 1, model, dimension)
    IN /\ pc = "call"
       /\ sent' = Append(sent, Attempt("ok"))
       /\ NextBatch(done.chunks, done.cache, done.stats, "ok")
       /\ UNCHANGED <<engine, start, sleeps, hits, prev, ncalls, total_calls, errors, others>>

\* if retries >= self.max_retries: raise
RetriesExhausted_early(r, limit) == r >= limit

\* if retries > self.max_retries: raise
RetriesExhausted(r, limit) == r > limit

\* delay *= 3
Backoff_tripled(d) == d * 3

\* delay *= 2
Backoff(d) == d * 2

\* except RateLimitError / except (APIConnectionError, APITimeoutError)
Transient(kind) ==
    /\ pc = "call"
    /\ errors < MaxErrors
    /\ errors' = errors + 1
    /\ sent' = Append(sent, Attempt("transient"))
    /\ IF RetriesExhausted(retries + 1, max_retries)
       THEN /\ BatchFailed(kind, [stats EXCEPT !.retries = @ + 1])
            /\ UNCHANGED sleeps
       ELSE /\ retries' = retries + 1
            /\ stats' = [stats EXCEPT !.retries = @ + 1]
            /\ sleeps' = Append(sleeps, [after |-> Len(sent) + 1, batch |-> i, delay |-> delay])
            /\ delay' = Backoff(delay)
            /\ UNCHANGED <<chunks, cache, disk, old_disk, result, pc, chunks_to_embed, i, raised,
                           outcome, last>>
    /\ UNCHANGED <<engine, start, hits, prev, ncalls, total_calls, others>>

RateLimited == Transient("RateLimitError")

ConnectionFailed == Transient("APIConnectionError")

\* A sleep and one more attempt after an error that is not transient.
Fatal_retried(kind) ==
    /\ pc = "call"
    /\ errors < MaxErrors
    /\ errors' = errors + 1
    /\ sent' = Append(sent, Attempt("fatal"))
    /\ sleeps' = Append(sleeps, [after |-> Len(sent) + 1, batch |-> i, delay |-> delay])
    /\ UNCHANGED <<retries, delay, stats, chunks, cache, disk, old_disk, result, pc,
                   chunks_to_embed, i, raised, outcome, last>>
    /\ UNCHANGED <<engine, start, hits, prev, ncalls, total_calls, others>>

\* except APIError / except Exception: raised again at once
Fatal(kind) ==
    /\ pc = "call"
    /\ errors < MaxErrors
    /\ errors' = errors + 1
    /\ sent' = Append(sent, Attempt("fatal"))
    /\ BatchFailed(kind, stats)
    /\ UNCHANGED <<engine, start, sleeps, hits, prev, ncalls, total_calls, others>>

ApiError == Fatal("APIError")

UnexpectedError == Fatal("Exception")

\* Embedder.__init__ with arguments drawn from the given sets, after the
\* engine before it has been used or its process has ended.
Construct(ms, ds, bss, rs, dls) ==
    /\ pc \in {"idle", "returned", "crashed"}
    /\ ncalls > 0
    /\ total_calls < MaxCalls
    /\ model' \in ms
    /\ dimension' \in ds
    /\ batch_size' \in bss
    /\ max_retries' \in rs
    /\ retry_delay' \in dls
    /\ cache' = load_cache(disk)
    /\ stats' = EmbeddingStats
    /\ ncalls' = 0
    /\ pc' = "idle"
    /\ NoHistory
    /\ UNCHANGED <<disk, old_disk, chunks, chunks_to_embed, i, retries, delay, result, raised,
                   last, prev, total_calls, errors, others>>

\* A later engine with a batch size of at least 1.
NewEngine ==
    Construct(Models, 1..MaxDimension, 1..MaxBatchSize, 0..MaxRetries, {retry_delay})

\* Embedder.reset_stats
ResetStats ==
    /\ pc \in {"idle", "returned"}
    /\ stats # EmbeddingStats
    /\ stats' = EmbeddingStats
    /\ pc' = "idle"
    /\ NoHistory
    /\ UNCHANGED <<engine, cache, disk, old_disk, chunks, chunks_to_embed, i, retries, delay,
                   result, raised, last, prev, ncalls, total_calls, errors, others>>

\* No driver script runs: the engine is used by a caller of its own.
NoDriver == [step |-> "none", input |-> <<>>, output |-> None, stats_file |-> <<>>]

\* The state after the first Embedder has been constructed with arguments
\* drawn from the given sets, over one of the given cache files.
Constructed(ms, ds, bss, rs, dls, files) ==
    /\ model \in ms
    /\ dimension \in ds
    /\ batch_size \in bss
    /\ max_retries \in rs
    /\ retry_delay \in dls
    /\ disk \in files
    /\ old_disk = disk
    /\ cache = load_cache(disk)
    /\ stats = EmbeddingStats
    /\ chunks = <<>>
    /\ chunks_to_embed = <<>>
    /\ i = 0
    /\ retries = 0
    /\ delay = 0
    /\ pc = "idle"
    /\ result = None
    /\ raised = FALSE
    /\ start = NoCall
    /\ sent = <<>>
    /\ sleeps = <<>>
    /\ outcome = <<>>
    /\ hits = {}
    /\ last = NoSummary
    /\ prev = NoSummary
    /\ ncalls = 0
    /\ total_calls = 0
    /\ errors = 0

\* The first engine: the default model and retry delay, a batch size of at
\* least 1, no cache file yet.
InitEngine ==
    Constructed({"text-embedding-3-large"}, 1..MaxDimension, 1..MaxBatchSize, 0..MaxRetries,
                {1}, {NoFile})

Init ==
    /\ keys = KeyTable(Units)
    /\ probe = <<>>
    /\ driver = NoDriver
    /\ parked = None
    /\ pipeline = None
    /\ InitEngine

Next ==
    \/ EmbedChunks
    \/ EmbedAgain
    \/ RemoteSuccess
    \/ RateLimited
    \/ ConnectionFailed
    \/ ApiError
    \/ UnexpectedError
    \/ NewEngine
    \/ ResetStats

Spec == Init /\ [][Next]_vars

----------------------------------------------------------------------------
(* The fingerprint alone: _get_cache_key applied to two units.             *)

KeySection == <<115, 101, 99>>

ProbeTexts == {TextA, <<97, 98>>, <<97, 98, 58, 123, 125>>}

ProbeMetadata ==
    { <<>>,
      <<<<KeyPage, IntVal(1)>>>>,
      <<<<KeyPage, IntVal(2)>>>>,
      <<<<KeyPage, StrVal(<<49>>)>>>>,
      <<<<KeyPage, IntVal(1)>>, <<KeySection, StrVal(<<115>>)>>>>,
      <<<<KeySection, StrVal(<<115>>)>>, <<KeyPage, IntVal(1)>>>>,
      <<<<KeyPage, StrVal(<<115>>)>>, <<KeySection, StrVal(<<115>>)>>>>,
      <<<<KeyPage, StrVal(<<115, 34, 44, 32, 34, 115, 101, 99, 34, 58, 32, 34, 115>>)>>>> }

ProbeUnits == {Unit(text, meta) : text \in ProbeTexts, meta \in ProbeMetadata}

\* Equal text and equal metadata: the same items, in any insertion order.
SameUnit(u, v) ==
    /\ u.content = v.content
    /\ {u.metadata[j] : j \in 1..Len(u.metadata)} = {v.metadata[j] : j \in 1..Len(v.metadata)}

KeyInit ==
    /\ keys = KeyTable(ProbeUnits)
    /\ probe \in {<<[a |-> u, b |-> v, ka |-> None, kb |-> None]>> : u \in ProbeUnits, v \in ProbeUnits}
    /\ driver = NoDriver
    /\ parked = None
    /\ pipeline = None
    /\ InitEngine

Fingerprint ==
    /\ probe[1].ka = None
    /\ probe' = <<[probe[1] EXCEPT !.ka = Some(keys[probe[1].a]), !.kb = Some(keys[probe[1].b])]>>
    /\ UNCHANGED <<engine, cache, disk, stats, chunks, chunks_to_embed, i, retries, pc, result,
                   raised, start, sent, outcome, hits, last, prev, ncalls, total_calls, errors,
                   delay, sleeps, old_disk, driver, keys, parked,
                   pipeline>>

KeyNext == Fingerprint

KeySpec == KeyInit /\ [][KeyNext]_vars

----------------------------------------------------------------------------
(* Engines constructed with any batch size: __init__ stores the argument    *)
(* as it is given.                                                          *)

MaxNegative == 2     \* batch_size ranges over -MaxNegative..1 here

ConfigInit ==
    /\ keys = KeyTable(Units)
    /\ probe = <<>>
    /\ driver = NoDriver
    /\ parked = None
    /\ pipeline = None
    /\ Constructed({"text-embedding-3-large"}, {1}, (0 - MaxNegative)..1, 0..MaxRetries,
                   {1}, {NoFile})

\* A later engine with another batch size, over the same cache file.
Reconfigure ==
    Construct({model}, {dimension}, (0 - MaxNegative)..1, {max_retries}, {retry_delay})

ConfigNext ==
    \/ EmbedChunks
    \/ EmbedAgain
    \/ RemoteSuccess
    \/ RateLimited
    \/ ConnectionFailed
    \/ ApiError
    \/ UnexpectedError
    \/ Reconfigure
    \/ ResetStats

ConfigSpec == ConfigInit /\ [][ConfigNext]_vars

----------------------------------------------------------------------------
(* Engines constructed over a cache file that is absent, not loadable or   *)
(* holds a JSON object with a value that is not an entry.                  *)

\* A JSON object whose value under the fingerprint of a unit is a number.
JunkCache == [k \in {keys[Unit(TextA, <<<<KeyPage, IntVal(1)>>>>)]} |-> JunkEntry]

ColdInit ==
    /\ keys = KeyTable(Units)
    /\ probe = <<>>
    /\ driver = NoDriver
    /\ parked = None
    /\ pipeline = None
    /\ Constructed({"text-embedding-3-large"}, {1}, 1..MaxBatchSize, {0}, {1},
                   {NoFile, Damaged, File(JunkCache)})

\* The process is started again: the same arguments, the cache file as it is.
Restart == Construct({model}, {dimension}, {batch_size}, {max_retries}, {retry_delay})

ColdNext ==
    \/ EmbedChunks
    \/ EmbedAgain
    \/ RemoteSuccess
    \/ RateLimited
    \/ ConnectionFailed
    \/ ApiError
    \/ UnexpectedError
    \/ Restart
    \/ ResetStats

ColdSpec == ColdInit /\ [][ColdNext]_vars

----------------------------------------------------------------------------
(* The process is killed while _save_cache writes the cache file.          *)

\* A cache file written by an earlier run: one entry, of the default model.
SeedCache ==
    cache_embedding(<<>>, Chunk(Unit(TextA, <<<<KeyPage, IntVal(1)>>>>), None),
                    RemoteVector(TextA, "text-embedding-3-large", 1), calculate_tokens(TextA),
                    "text-embedding-3-large", 1)

CrashInit ==
    /\ keys = KeyTable(Units)
    /\ probe = <<>>
    /\ driver = NoDriver
    /\ parked = None
    /\ pipeline = None
    /\ Constructed({"text-embedding-3-large"}, {1}, 1..MaxBatchSize, {0}, {1},
                   {NoFile, File(SeedCache)})

\* open(self.cache_file, 'w') empties the file and json.dump writes the new
\* text into it piece by piece: a process killed in _save_cache leaves the
\* file as it was (not opened yet), not loadable (emptied, or holding a part
\* of the new text) or complete.
Interrupted_files(before, after) == {before, Damaged, after}

\* The process is killed in the _save_cache of the call that was about to
\* return; the caller loads its list again in the next run.
Interrupted ==
    /\ pc = "returned"
    /\ last.flushed
    /\ disk' \in Interrupted_files(old_disk, save_cache(cache))
    /\ pc' = "crashed"
    /\ result' = None
    /\ chunks' = start.chunks
    /\ last' = [last EXCEPT !.ok = FALSE, !.flushed = FALSE, !.killed = TRUE]
    /\ UNCHANGED <<engine, cache, old_disk, stats, chunks_to_embed, i, retries, delay, raised,
                   history, prev, ncalls, total_calls, errors, others>>

CrashNext ==
    \/ EmbedChunks
    \/ EmbedAgain
    \/ RemoteSuccess
    \/ RateLimited
    \/ ConnectionFailed
    \/ ApiError
    \/ UnexpectedError
    \/ Interrupted
    \/ Restart
    \/ ResetStats

CrashSpec == CrashInit /\ [][CrashNext]_vars

----------------------------------------------------------------------------
(* validate_embeddings and estimate_cost alone, on lists of chunks with     *)
(* texts of several lengths and with no vector or a vector of any length.   *)

Text400 == [j \in 1..400 |-> 97]

QueryChunks ==
    { Chunk(Unit(<<97, 98, 99>>, <<>>), None),
      Chunk(Unit(TextA, <<>>), Some(<<5>>)),
      Chunk(Unit(<<97, 98, 99, 100, 101, 102, 103>>, <<>>), Some(<<5, 5>>)),
      Chunk(Unit(TextB, <<>>), Some(<<>>)),
      Chunk(Unit(Text400, <<>>), Some(<<5, 5, 5>>)) }

QueryLists == UNION {[1..n -> QueryChunks] : n \in 0..MaxLen}

NoAnswer == [op |-> "none", chunks |-> <<>>, valid |-> FALSE, cost |-> 0]

QueryInit ==
    /\ keys = <<>>
    /\ probe = <<NoAnswer>>
    /\ driver = NoDriver
    /\ parked = None
    /\ pipeline = None
    /\ Constructed({"text-embedding-3-large"}, 1..MaxDimension, {1}, {0}, {1}, {NoFile})

\* Embedder.validate_embeddings(list)
ValidateEmbeddings ==
    /\ pc = "idle"
    /\ probe = <<NoAnswer>>
    /\ \E list \in QueryLists :
          probe' = <<[op |-> "validate_embeddings", chunks |-> list,
                      valid |-> validate_embeddings(list, dimension), cost |-> 0]>>
    /\ UNCHANGED <<engine, cache, disk, old_disk, stats, chunks, chunks_to_embed, i, retries,
                   delay, pc, result, raised, history, last, prev, ncalls, total_calls, errors,
                   driver, keys, parked, pipeline>>

\* Embedder.estimate_cost(list)
EstimateCost ==
    /\ pc = "idle"
    /\ probe = <<NoAnswer>>
    /\ \E list \in QueryLists :
          probe' = <<[op |-> "estimate_cost", chunks |-> list, valid |-> FALSE,
                      cost |-> estimate_cost(list)]>>
    /\ UNCHANGED <<engine, cache, disk, old_disk, stats, chunks, chunks_to_embed, i, retries,
                   delay, pc, result, raised, history, last, prev, ncalls, total_calls, errors,
                   driver, keys, parked, pipeline>>

QueryNext ==
    \/ ValidateEmbeddings
    \/ EstimateCost

QuerySpec == QueryInit /\ [][QueryNext]_vars

----------------------------------------------------------------------------
(* The driver scripts embed_existing_chunks.py and embed_hybrid_chunks.py:  *)
(* main from the loaded chunk file to the statistics file.  The two differ  *)
(* in the choice of the input file only.                                    *)

DriverBatchSize == 100

DriverMaxRetries == 3

\* The scripts ask for dimension 3072; the model scales it to MaxDimension.
DriverDimension == MaxDimension

\* main has loaded the chunk file and constructed the Embedder.
DriverInit ==
    /\ keys = KeyTable(Units)
    /\ probe = <<>>
    /\ driver \in {[step |-> "confirm", input |-> list, output |-> None, stats_file |-> <<>>] :
                      list \in InputLists}
    /\ parked = None
    /\ pipeline = None
    /\ Constructed({"text-embedding-3-large"}, {DriverDimension}, {DriverBatchSize},
                   {DriverMaxRetries}, {1}, {NoFile})

DriverUnchanged ==
    UNCHANGED <<engine, cache, disk, old_disk, stats, chunks, chunks_to_embed, i, retries,
                delay, pc, result, raised, history, last, prev, ncalls, total_calls, errors,
                keys, probe, parked, pipeline>>

\* "Proceed with embedding?": any other answer than yes ends main.
DriverAnswer ==
    /\ driver.step = "confirm"
    /\ \E yes \in BOOLEAN :
          driver' = [driver EXCEPT !.step = IF yes THEN "embed" ELSE "cancelled"]
    /\ DriverUnchanged

\* embedded_chunks = embedder.embed_chunks(chunks, show_progress=True)
DriverEmbed ==
    /\ driver.step = "embed"
    /\ pc = "idle"
    /\ Call(driver.input, FALSE)

\* if not is_valid: ... return
DriverStops(is_valid) == ~is_valid

\* The rest of main after embed_chunks: validation, chunk file, statistics file.
DriverFinish ==
    /\ driver.step = "embed"
    /\ pc = "returned"
    /\ IF raised
       THEN driver' = [driver EXCEPT !.step = "raised"]
       ELSE IF DriverStops(validate_embeddings(result[1], dimension))
       THEN driver' = [driver EXCEPT !.step = "invalid"]
       ELSE driver' = [driver EXCEPT !.step = "complete",
                                     !.output = Some(result[1]),
                                     !.stats_file = Append(@, stats)]
    /\ DriverUnchanged

DriverNext ==
    \/ DriverAnswer
    \/ DriverEmbed
    \/ RemoteSuccess
    \/ RateLimited
    \/ ConnectionFailed
    \/ ApiError
    \/ UnexpectedError
    \/ DriverFinish

DriverSpec == DriverInit /\ [][DriverNext]_vars

----------------------------------------------------------------------------
(* Engines with more retries and with several retry delays: the sleeps of   *)
(* _call_api_with_retry.                                                    *)

MaxSleeps == 3       \* max_retries ranges over 0..MaxSleeps here
MaxDelay == 2        \* retry_delay ranges over 1..MaxDelay here

BackoffInit ==
    /\ keys = KeyTable(Units)
    /\ probe = <<>>
    /\ driver = NoDriver
    /\ parked = None
    /\ pipeline = None
    /\ Constructed({"text-embedding-3-large"}, {1}, 1..MaxBatchSize, 0..MaxSleeps, 1..MaxDelay,
                   {NoFile})

BackoffNext ==
    \/ EmbedChunks
    \/ EmbedAgain
    \/ RemoteSuccess
    \/ RateLimited
    \/ ConnectionFailed
    \/ ApiError
    \/ UnexpectedError

BackoffSpec == BackoffInit /\ [][BackoffNext]_vars

----------------------------------------------------------------------------
(* Two Embedder instances over the same cache file: the Embedder of the     *)
(* embedding run and the Embedder a PineconeStore constructs for its        *)
(* queries, both with cache_dir "outputs/embeddings_cache".  One instance   *)
(* runs at a time; the other one is parked with all of its fields.          *)

MaxShared == 1       \* longest list passed to embed_chunks here

SharedLists == {list \in InputLists : Len(list) <= MaxShared}

\* The fields of the running instance and the history of its call.
Instance ==
    [model |-> model, dimension |-> dimension, batch_size |-> batch_size,
     max_retries |-> max_retries, retry_delay |-> retry_delay, cache |-> cache,
     stats |-> stats, chunks |-> chunks, chunks_to_embed |-> chunks_to_embed, i |-> i,
     retries |-> retries, delay |-> delay, pc |-> pc, result |-> result, raised |-> raised,
     start |-> start, sent |-> sent, sleeps |-> sleeps, outcome |-> outcome, hits |-> hits,
     last |-> last, prev |-> prev, ncalls |-> ncalls]

\* Both instances have been constructed, one after the other, before either
\* of them embeds: each has loaded the same file.
SharedInit ==
    /\ keys = KeyTable(Units)
    /\ probe = <<>>
    /\ driver = NoDriver
    /\ Constructed({"text-embedding-3-large"}, {1}, {1}, {0}, {1}, {NoFile})
    /\ parked = Some(Instance)
    /\ pipeline = None

\* The running instance stops where it is and the parked one goes on.
Switch ==
    /\ parked # None
    /\ parked' = Some(Instance)
    /\ model' = parked[1].model
    /\ dimension' = parked[1].dimension
    /\ batch_size' = parked[1].batch_size
    /\ max_retries' = parked[1].max_retries
    /\ retry_delay' = parked[1].retry_delay
    /\ cache' = parked[1].cache
    /\ stats' = parked[1].stats
    /\ chunks' = parked[1].chunks
    /\ chunks_to_embed' = parked[1].chunks_to_embed
    /\ i' = parked[1].i
    /\ retries' = parked[1].retries
    /\ delay' = parked[1].delay
    /\ pc' = parked[1].pc
    /\ result' = parked[1].result
    /\ raised' = parked[1].raised
    /\ start' = parked[1].start
    /\ sent' = parked[1].sent
    /\ sleeps' = parked[1].sleeps
    /\ outcome' = parked[1].outcome
    /\ hits' = parked[1].hits
    /\ last' = parked[1].last
    /\ prev' = parked[1].prev
    /\ ncalls' = parked[1].ncalls
    /\ UNCHANGED <<disk, old_disk, total_calls, errors, driver, keys, probe, pipeline>>

\* The first embed_chunks call of the running instance.
InstanceEmbedChunks == ncalls = 0 /\ \E list \in SharedLists : Call(list, FALSE)

SharedNext ==
    \/ InstanceEmbedChunks
    \/ RemoteSuccess
    \/ RateLimited
    \/ ConnectionFailed
    \/ ApiError
    \/ UnexpectedError
    \/ Switch

SharedSpec == SharedInit /\ [][SharedNext]_vars

----------------------------------------------------------------------------
(* pipeline_orchestrator.py: PipelineOrchestrator.run with pipeline 'all',  *)
(* one run after the other.  The parser, the markdown generator, the        *)
(* chunker and the vector store either do their work or raise; the          *)
(* embedding stage runs embed_chunks of a new Embedder.                     *)

MaxRuns == 2         \* orchestrator runs one after the other
MaxChunks == 2       \* longest list the chunker writes

\* The chunks the chunker writes have no vector.
PipelineLists ==
    UNION {[1..n -> {Chunk(u, None) : u \in Units}] : n \in 0..MaxChunks}

\* self.state after __init__; checkpoint_file is a pathlib.Path.
FreshState ==
    [pdf_parsed |-> FALSE, markdown_generated |-> FALSE, chunks_created |-> FALSE,
     embeddings_generated |-> FALSE, vectors_stored |-> FALSE, checkpoint_file |-> "Path"]

\* json.dump ends with TypeError at a value that is a Path, after it has
\* written the text before that value; the exception is logged.
save_checkpoint(st) == IF st.checkpoint_file = "Path" THEN Damaged ELSE File(st)

\* self.state.update(checkpoint.get('state', {})); json.load raises on a text
\* that is not JSON and the state stays as it is.
load_checkpoint(st, file) == IF file.state = "json" THEN file.value ELSE st

\* PipelineOrchestrator(config): the checkpoint is loaded when resume is set
\* and the file exists.
Orchestrator(resume, file) ==
    IF resume /\ file.state # "absent" THEN load_checkpoint(FreshState, file) ELSE FreshState

\* A stage has returned: run goes on with the next stage or ends.
StageReturns(p, stage, ok, skipped, next) ==
    [p EXCEPT !.step = IF ok THEN next ELSE "failed",
              !.done = Append(@, [stage |-> stage, ok |-> ok, skipped |-> skipped]),
              !.completed = IF ok /\ ~skipped THEN @ \cup {stage} ELSE @]

PipelineUnchanged ==
    UNCHANGED <<engine, cache, disk, old_disk, stats, chunks, chunks_to_embed, i, retries,
                delay, pc, result, raised, history, last, prev, ncalls, total_calls, errors,
                driver, keys, probe, parked>>

\* main has constructed the first orchestrator; nothing has been written yet.
PipelineInit ==
    /\ keys = KeyTable(Units)
    /\ probe = <<>>
    /\ driver = NoDriver
    /\ parked = None
    /\ Constructed({"text-embedding-3-large"}, {DriverDimension}, 1..MaxBatchSize,
                   {DriverMaxRetries}, {1}, {NoFile})
    /\ pipeline \in {[state |-> Orchestrator(resume, NoFile), checkpoint |-> NoFile,
                      resume |-> resume, step |-> "pdf", runs |-> 1, seen |-> 0,
                      markdown |-> FALSE, chunks_file |-> None, embedded_file |-> None,
                      done |-> <<>>, completed |-> {}, earlier |-> {}] : resume \in BOOLEAN}

\* run_pdf_parser
RunPdfParser ==
    /\ pipeline.step = "pdf"
    /\ \E parsed \in BOOLEAN, generated \in BOOLEAN :
          LET st == pipeline.state
              st1 == [st EXCEPT !.pdf_parsed = TRUE]
              st2 == [st1 EXCEPT !.markdown_generated = TRUE]
          IN pipeline' =
                IF st.pdf_parsed /\ st.markdown_generated
                THEN StageReturns(pipeline, "pdf", TRUE, TRUE, "chunking")
                ELSE IF ~parsed
                THEN StageReturns(pipeline, "pdf", FALSE, FALSE, "chunking")
                ELSE IF ~generated
                THEN StageReturns([pipeline EXCEPT !.state = st1,
                                                   !.checkpoint = save_checkpoint(st1)],
                                  "pdf", FALSE, FALSE, "chunking")
                ELSE StageReturns([pipeline EXCEPT !.state = st2,
                                                   !.checkpoint = save_checkpoint(st2),
                                                   !.markdown = TRUE],
                                  "pdf", TRUE, FALSE, "chunking")
    /\ PipelineUnchanged

\* run_chunking_pipeline
RunChunking ==
    /\ pipeline.step = "chunking"
    /\ \E chunked \in BOOLEAN, list \in PipelineLists :
          LET st == [pipeline.state EXCEPT !.chunks_created = TRUE]
          IN pipeline' =
                IF pipeline.state.chunks_created
                THEN StageReturns(pipeline, "chunking", TRUE, TRUE, "embedding")
                ELSE IF ~pipeline.markdown \/ ~chunked
                THEN StageReturns(pipeline, "chunking", FALSE, FALSE, "embedding")
                ELSE StageReturns([pipeline EXCEPT !.state = st,
                                                   !.checkpoint = save_checkpoint(st),
                                                   !.chunks_file = Some(list)],
                                  "chunking", TRUE, FALSE, "embedding")
    /\ PipelineUnchanged

\* run_embedding_pipeline gets as far as the Embedder: the stage is not
\* complete yet and the chunk file exists.
EmbeddingRuns ==
    /\ ~pipeline.state.embeddings_generated
    /\ pipeline.chunks_file # None

\* run_embedding_pipeline: embedder = Embedder(...), in a run after a run
\* that has used an Embedder.
PipelineEmbedder ==
    /\ pipeline.step = "embedding"
    /\ EmbeddingRuns
    /\ total_calls = pipeline.seen
    /\ Construct({model}, {dimension}, {batch_size}, {max_retries}, {retry_delay})

\* run_embedding_pipeline: embedded_chunks = embedder.embed_chunks(chunks)
PipelineEmbed ==
    /\ pipeline.step = "embedding"
    /\ EmbeddingRuns
    /\ total_calls = pipeline.seen
    /\ ncalls = 0
    /\ pc = "idle"
    /\ Call(pipeline.chunks_file[1], FALSE)

\* run_embedding_pipeline returns: at once when the stage is complete already
\* or the chunk file is missing, else after embed_chunks, with the file of
\* the embedded chunks, the flag and the checkpoint written.
RunEmbeddingReturns ==
    /\ pipeline.step = "embedding"
    /\ EmbeddingRuns => total_calls > pipeline.seen /\ pc = "returned"
    /\ LET st == [pipeline.state EXCEPT !.embeddings_generated = TRUE]
       IN pipeline' =
             IF pipeline.state.embeddings_generated
             THEN StageReturns(pipeline, "embedding", TRUE, TRUE, "storage")
             ELSE IF pipeline.chunks_file = None \/ raised
             THEN StageReturns(pipeline, "embedding", FALSE, FALSE, "storage")
             ELSE StageReturns([pipeline EXCEPT !.state = st,
                                                !.checkpoint = save_checkpoint(st),
                                                !.embedded_file = Some(result[1])],
                               "embedding", TRUE, FALSE, "storage")
    /\ PipelineUnchanged

\* run_storage_pipeline
RunStorage ==
    /\ pipeline.step = "storage"
    /\ \E stored \in BOOLEAN :
          LET st == [pipeline.state EXCEPT !.vectors_stored = TRUE]
          IN pipeline' =
                IF pipeline.state.vectors_stored
                THEN StageReturns(pipeline, "storage", TRUE, TRUE, "complete")
                ELSE IF pipeline.embedded_file = None \/ ~stored
                THEN StageReturns(pipeline, "storage", FALSE, FALSE, "complete")
                ELSE StageReturns([pipeline EXCEPT !.state = st,
                                                   !.checkpoint = save_checkpoint(st)],
                                  "storage", TRUE, FALSE, "complete")
    /\ PipelineUnchanged

\* main once more, with or without --resume, after a run has ended.
RunAgain ==
    /\ pipeline.step \in {"complete", "failed"}
    /\ pipeline.runs < MaxRuns
    /\ \E resume \in BOOLEAN :
          pipeline' = [pipeline EXCEPT !.state = Orchestrator(resume, pipeline.checkpoint),
                                       !.resume = resume,
                                       !.step = "pdf",
                                       !.runs = @ + 1,
                                       !.seen = total_calls,
                                       !.done = <<>>,
                                       !.earlier = pipeline.completed]
    /\ PipelineUnchanged

PipelineNext ==
    \/ RunPdfParser
    \/ RunChunking
    \/ PipelineEmbedder
    \/ PipelineEmbed
    \/ RemoteSuccess
    \/ RateLimited
    \/ ConnectionFailed
    \/ ApiError
    \/ UnexpectedError
    \/ RunEmbeddingReturns
    \/ RunStorage
    \/ RunAgain

PipelineSpec == PipelineInit /\ [][PipelineNext]_vars

----------------------------------------------------------------------------
(* Properties of embed_chunks, stated over the history of the call.        *)

\* The list, as it was passed to the call.
Given == start.chunks

\* The pending list of the call: the indices that were not served from the cache.
PendingOf(k) == Cardinality({j \in 1..k : j \notin hits})

Pending == PendingOf(Len(Given))

\* Number of batches of the call: ceil(pending / batch_size).
NBatches == (Pending + batch_size - 1) \div batch_size

\* The batch (1, 2, ...) a pending index of the list belongs to.
BatchOf(k) == ((PendingOf(k) - 1) \div batch_size) + 1

\* Number of units of batch b.
SizeOf(b) == IF b * batch_size <= Pending THEN batch_size ELSE Pending - (b - 1) * batch_size

RECURSIVE SizeSum(_, _)
SizeSum(b, oc) ==
    IF b = 0 THEN 0
    ELSE SizeSum(b - 1, oc) + (IF outcome[b] = oc THEN SizeOf(b) ELSE 0)

\* The remote attempts made for the batch at an offset.
Attempts(off) == {k \in 1..Len(sent) : sent[k].batch = off}

InBatch(k, oc) == k \notin hits /\ BatchOf(k) <= Len(outcome) /\ outcome[BatchOf(k)] = oc

\* C1: at the end of every embed_chunks call on an engine, the first and every
\* later one, total_chunks = cached_chunks + embedded_chunks + failed_chunks.
C1_StatsSumEveryCall ==
    pc = "returned" =>
        stats.total_chunks = stats.cached_chunks + stats.embedded_chunks + stats.failed_chunks

\* C2: every batch of the pending list is submitted, in order, whatever the
\* outcome of the batches before it; embedded_chunks grows by the sizes of the
\* successful batches and failed_chunks by the sizes of the failed ones.
C2_BatchFailureIsolation ==
    pc \in {"call", "returned"} =>
        /\ \A k \in 1..Len(sent) :
              sent[k].batch = (IF k = 1 THEN 0
                               ELSE IF sent[k - 1].outcome = "transient"
                                       /\ Cardinality(Attempts(sent[k - 1].batch) \cap 1..(k - 1))
                                            <= max_retries
                                    THEN sent[k - 1].batch
                                    ELSE sent[k - 1].batch + batch_size)
        /\ pc = "returned" =>
              /\ Len(outcome) = NBatches
              /\ \A b \in 1..NBatches : Attempts((b - 1) * batch_size) # {}
        /\ stats.embedded_chunks = start.stats.embedded_chunks + SizeSum(Len(outcome), "ok")
        /\ stats.failed_chunks = start.stats.failed_chunks + SizeSum(Len(outcome), "failed")

C2_Witness ==
    /\ pc = "returned"
    /\ outcome = <<"failed", "failed", "ok">>
    /\ stats.embedded_chunks = 1
    /\ stats.failed_chunks = 2

\* C3: a batch whose attempts all fail with a transient error gets exactly
\* max_retries + 1 attempts and then fails; no batch gets more than
\* max_retries + 1 attempts.
C3_RetryBound ==
    \A b \in 1..Len(chunks_to_embed) \cup 1..Len(outcome) :
        LET att == Attempts((b - 1) * batch_size)
            transient == \A k \in att : sent[k].outcome = "transient"
        IN /\ Cardinality(att) <= max_retries + 1
           /\ (transient /\ b <= Len(outcome)) =>
                 Cardinality(att) = max_retries + 1 /\ outcome[b] = "failed"
           /\ (transient /\ Cardinality(att) = max_retries + 1) =>
                 b <= Len(outcome) /\ outcome[b] = "failed"

C3_Witness ==
    /\ max_retries >= 1
    /\ Len(outcome) >= 1
    /\ outcome[1] = "failed"
    /\ Cardinality(Attempts(0)) = max_retries + 1
    /\ \A k \in Attempts(0) : sent[k].outcome = "transient"

\* C4: after a call in which every batch succeeded, a second call on the same
\* list, by the same engine or by a new engine with the same model, issues no
\* remote call, counts every unit as cached and leaves every vector as it was.
C4_CacheIdempotence ==
    (pc \in {"call", "returned"} /\ start.again /\ prev.ok /\ prev.model = model) =>
        /\ pc = "returned"
        /\ sent = <<>>
        /\ hits = 1..Len(Given)
        /\ stats.cached_chunks = start.stats.cached_chunks + Len(Given)
        /\ result = Some(chunks)
        /\ \A k \in 1..Len(Given) :
              chunks[k].embeddings # None /\ chunks[k].embeddings = Given[k].embeddings

C4_Witness ==
    /\ pc = "returned"
    /\ start.again
    /\ prev.ok
    /\ prev.model = model
    /\ ncalls = 1
    /\ Len(Given) = MaxLen

\* C5: a cache entry stored under another model is never returned by the
\* lookup: the unit is pending, is sent to the remote client and, on success,
\* its entry is overwritten under the engine's model; a vector assigned from the
\* cache comes from an entry of the engine's model.
C5_ModelChangeInvalidation ==
    pc \in {"call", "returned"} =>
        \A k \in 1..Len(Given) :
            LET key == CacheKey(Given[k])
                stale == key \in DOMAIN start.cache /\ start.cache[key].model # model
            IN /\ k \in hits =>
                    /\ key \in DOMAIN start.cache
                    /\ start.cache[key].model = model
                    /\ chunks[k].embeddings = Some(start.cache[key].embedding)
               /\ stale =>
                    /\ get_cached_embedding(start.cache, Given[k], model) = None
                    /\ k \notin hits
                    /\ pc = "returned" => Attempts((BatchOf(k) - 1) * batch_size) # {}
                    /\ InBatch(k, "ok") =>
                          /\ cache[key].model = model
                          /\ cache[key].embedding = RemoteVector(Given[k].content, model, dimension)

C5_Witness ==
    /\ pc = "returned"
    /\ \E k \in 1..Len(Given) :
          /\ CacheKey(Given[k]) \in DOMAIN start.cache
          /\ start.cache[CacheKey(Given[k])].model # model
          /\ InBatch(k, "ok")

\* C6: embed_chunks returns a list of the length of its input that holds the
\* same units at the same positions, whatever was cached, embedded or failed.
C6_OrderPreservation ==
    pc = "returned" =>
        /\ result # None
        /\ Len(result[1]) = Len(Given)
        /\ \A k \in 1..Len(Given) :
              /\ result[1][k].content = Given[k].content
              /\ result[1][k].metadata = Given[k].metadata

C6_Witness ==
    /\ pc = "returned"
    /\ Len(Given) = MaxLen
    /\ hits # {}
    /\ \E j, k \in 1..Len(Given) : InBatch(j, "ok") /\ InBatch(k, "failed")
    /\ Given[1].content # Given[MaxLen].content

\* C7: two units have the same fingerprint exactly when they have equal text and
\* equal metadata, whatever the insertion order of the metadata.
C7_FingerprintDeterminism ==
    (Len(probe) = 1 /\ probe[1].ka # None) =>
        ((probe[1].ka = probe[1].kb) <=> SameUnit(probe[1].a, probe[1].b))

C7_Witness ==
    /\ Len(probe) = 1
    /\ probe[1].ka # None
    /\ probe[1].ka = probe[1].kb
    /\ probe[1].a.metadata # probe[1].b.metadata

\* C8: every vector that a call assigned to a unit, from a remote response or
\* from a cache entry, has the length of the engine's dimension.
C8_VectorsHaveDimension ==
    pc = "returned" =>
        \A k \in 1..Len(Given) :
            (k \in hits \/ InBatch(k, "ok")) =>
                /\ chunks[k].embeddings # None
                /\ Len(chunks[k].embeddings[1]) = dimension

\* C9: after a call, every unit of a batch that failed has a null vector, also
\* when the unit arrived with a vector.
C9_FailedUnitsHaveNoVector ==
    pc = "returned" =>
        \A k \in 1..Len(Given) : InBatch(k, "failed") => chunks[k].embeddings = None

\* The remote attempts the call may still make, at most.
Rank == IF pc = "call" THEN (NBatches - Len(outcome)) * (max_retries + 1) - retries ELSE 0

\* C10: embed_chunks never raises, makes at most
\* ceil(pending / batch_size) * (max_retries + 1) remote attempts, and every
\* remote attempt brings it closer to its return.
C10_RunsToCompletion ==
    /\ [](~raised /\ (pc \in {"call", "returned"} => Len(sent) <= NBatches * (max_retries + 1)))
    /\ [](pc = "call" => Rank > 0)
    /\ [][pc = "call" => Rank' < Rank]_vars

C10_Witness ==
    /\ pc = "returned"
    /\ ~raised
    /\ NBatches >= 2
    /\ max_retries >= 1
    /\ Len(sent) >= NBatches + 2
    /\ \E k \in 1..Len(sent) : sent[k].outcome = "fatal"

\* C11: an engine whose batch_size is 0 or negative issues no remote call, and
\* an embed_chunks call of such an engine that has pending units raises: it
\* never returns normally with pending units left unprocessed.
C11_BadBatchSizeIsReported ==
    batch_size <= 0 =>
        /\ pc # "call"
        /\ sent = <<>>
        /\ (pc = "returned" /\ Pending > 0) => raised

\* A cache file that holds a mapping from fingerprints to entries.
ValidCacheFile(file) ==
    file.state = "json" /\ \A k \in DOMAIN file.value : IsEntry(file.value[k])

\* C12: an engine constructed over a cache file that is absent, not loadable
\* or not a mapping of entries starts with an empty cache, and its first
\* embed_chunks call does not raise and serves no unit from the cache.
C12_ColdCacheStart ==
    /\ (pc = "idle" /\ ncalls = 0 /\ ~ValidCacheFile(disk)) => cache = <<>>
    /\ (pc \in {"call", "returned"} /\ ncalls = 1 /\ ~ValidCacheFile(start.file)) =>
          /\ start.cache = <<>>
          /\ ~raised
          /\ hits = {}

\* C13: when the process is killed during _save_cache, the cache file holds
\* the complete contents it had before the flush or the complete new contents,
\* and the engine constructed next has every fingerprint the file held before
\* the flush.
C13_CrashSafeFlush ==
    /\ pc = "crashed" => disk \in {old_disk, save_cache(cache)}
    /\ (last.killed /\ pc = "idle" /\ ncalls = 0) =>
          \A k \in DOMAIN load_cache(old_disk) : k \in DOMAIN cache

\* The arguments and the result of the last call of a single function.
Asked == probe[1]

\* C14: validate_embeddings returns true exactly when every chunk of the list
\* has a vector that is not None and whose length is the engine's dimension;
\* so it returns true for the empty list.
C14_ValidateEmbeddings ==
    Asked.op = "validate_embeddings" =>
        (Asked.valid <=>
            \A k \in 1..Len(Asked.chunks) :
                /\ Asked.chunks[k].embeddings # None
                /\ Len(Asked.chunks[k].embeddings[1]) = dimension)

C14_Witness ==
    /\ Asked.op = "validate_embeddings"
    /\ Len(Asked.chunks) = MaxLen
    /\ ~Asked.valid
    /\ \E k \in 1..Len(Asked.chunks) :
          Asked.chunks[k].embeddings # None /\ Len(Asked.chunks[k].embeddings[1]) = dimension
    /\ \A k \in 1..Len(Asked.chunks) : Asked.chunks[k].embeddings # None

\* The characters of the texts of a list, a quarter of them per text rounded down.
RECURSIVE QuarterSum(_)
QuarterSum(list) ==
    IF list = <<>> THEN 0
    ELSE LET n == Len(Head(list).content)
         IN (CHOOSE q \in 0..n : 4 * q <= n /\ n < 4 * (q + 1)) + QuarterSum(Tail(list))

\* C15: estimate_cost returns PRICE_PER_TOKEN times the sum over the units of
\* floor(len(text) / 4), and a call of it issues no remote call and leaves the
\* statistics, the cache, the cache file and the units as they were.
C15_EstimateCostIsPure ==
    /\ [](Asked.op = "estimate_cost" => Asked.cost = PRICE_PER_TOKEN * QuarterSum(Asked.chunks))
    /\ [][Asked'.op = "estimate_cost" => UNCHANGED <<stats, cache, disk, chunks, sent, pc>>]_vars

C15_Witness ==
    /\ Asked.op = "estimate_cost"
    /\ Len(Asked.chunks) = MaxLen
    /\ Asked.chunks[1].content = Text400
    /\ Len(Asked.chunks[2].content) = 7
    /\ Asked.cost = 101 * PRICE_PER_TOKEN + calculate_tokens(Asked.chunks[3].content) * PRICE_PER_TOKEN

\* The units the call sent to the remote client, by their indices in the list.
SentUnits == UNION {{sent[k].units[j] : j \in 1..Len(sent[k].units)} : k \in 1..Len(sent)}

\* A second call on the list of a call, under the same model, in which some
\* batches failed.
RunAgainAfterFailure ==
    /\ pc \in {"call", "returned"}
    /\ start.again
    /\ prev.failed # {}
    /\ prev.model = model

\* Every attempt of the call sent units of the list in their order in the list.
SentInOrder ==
    \A k \in 1..Len(sent) :
        \A a, b \in 1..Len(sent[k].units) : a < b => sent[k].units[a] < sent[k].units[b]

\* C16 as stated: the second call sends exactly the units that failed in the
\* first call, in their order in the list, and serves every other unit from
\* the cache.
C16_RerunSendsTheFailedUnits ==
    RunAgainAfterFailure =>
        /\ hits = (1..Len(Given)) \ prev.failed
        /\ SentUnits \subseteq prev.failed
        /\ SentInOrder
        /\ pc = "returned" => SentUnits = prev.failed

\* The units that failed in the first call and whose fingerprint is not the
\* fingerprint of a unit of the list that did not fail.
StillMissing ==
    {k \in prev.failed :
        \A j \in (1..Len(Given)) \ prev.failed : CacheKey(Given[j]) # CacheKey(Given[k])}

\* C16, amended: the second call sends exactly the units that failed in the
\* first call and share no fingerprint with a unit that did not fail, in their
\* order in the list, and serves every other unit from the cache.
C16_RerunSendsTheMissingUnits ==
    RunAgainAfterFailure =>
        /\ hits = (1..Len(Given)) \ StillMissing
        /\ SentUnits \subseteq StillMissing
        /\ SentInOrder
        /\ pc = "returned" => SentUnits = StillMissing
        /\ \A k \in hits :
              chunks[k].embeddings = Some(start.cache[CacheKey(Given[k])].embedding)

C16_Witness ==
    /\ RunAgainAfterFailure
    /\ pc = "returned"
    /\ Len(Given) = MaxLen
    /\ Cardinality(SentUnits) = 1
    /\ Cardinality(prev.failed) = 2
    /\ \E k \in 1..Len(sent) : sent[k].outcome = "ok"

\* C17: a run of a driver script in which embed_chunks was executed has, when
\* main has ended, written the statistics file exactly once, whether every
\* unit was embedded or some units failed.
C17_StatisticsWrittenOnce ==
    /\ Len(driver.stats_file) <= 1
    /\ (driver.step \in {"invalid", "complete", "raised"} /\ ncalls = 1) =>
          Len(driver.stats_file) = 1

\* The sleeps before the s-th one that belong to the same batch, that is to
\* the same _call_api_with_retry call.
SleepsBefore(s) == Cardinality({n \in 1..(s - 1) : sleeps[n].batch = sleeps[s].batch})

\* C18: in one _call_api_with_retry call the k-th sleep (k = 0, 1, ...) lasts
\* retry_delay * 2^k; every sleep follows an attempt that failed with a
\* transient error and is followed by the next attempt of the same call, so no
\* sleep follows the last attempt, and a call sleeps at most max_retries times.
C18_BackoffSchedule ==
    \A s \in 1..Len(sleeps) :
        /\ sleeps[s].delay = retry_delay * Pow2(SleepsBefore(s))
        /\ SleepsBefore(s) < max_retries
        /\ sleeps[s].after \in 1..Len(sent)
        /\ sent[sleeps[s].after].outcome = "transient"
        /\ sent[sleeps[s].after].batch = sleeps[s].batch
        /\ \A n \in 1..(s - 1) : sleeps[n].after < sleeps[s].after
        /\ IF sleeps[s].after < Len(sent)
           THEN sent[sleeps[s].after + 1].batch = sleeps[s].batch
           ELSE pc = "call" /\ i = sleeps[s].batch

C18_Witness ==
    /\ pc = "returned"
    /\ retry_delay = MaxDelay
    /\ max_retries = 2
    /\ Len(sent) = 3
    /\ outcome = <<"failed">>
    /\ Len(sleeps) = 2
    /\ sleeps[1].delay = MaxDelay
    /\ sleeps[2].delay = 2 * MaxDelay

\* The step is a remote attempt that fails with an error that is not transient.
FatalAttempt == Len(sent') = Len(sent) + 1 /\ sent'[Len(sent')].outcome = "fatal"

\* C19: an attempt that fails with a fatal or unknown error is the last
\* attempt of its batch, also when retries remain: no sleep and no further
\* attempt follows it, the retries counter stays as it is, and the units of
\* the batch are counted as failed.
C19_FatalIsNotRetried ==
    /\ [](\A k \in 1..Len(sent) :
            sent[k].outcome = "fatal" =>
                /\ \A n \in (k + 1)..Len(sent) : sent[n].batch # sent[k].batch
                /\ \A s \in 1..Len(sleeps) : sleeps[s].after # k
                /\ (sent[k].batch \div batch_size) + 1 <= Len(outcome)
                /\ outcome[(sent[k].batch \div batch_size) + 1] = "failed")
    /\ [][FatalAttempt =>
            /\ stats'.retries = stats.retries
            /\ stats'.failed_chunks = stats.failed_chunks + Len(sent'[Len(sent')].units)
            /\ stats'.embedded_chunks = stats.embedded_chunks
            /\ sleeps' = sleeps
            /\ Len(outcome') = Len(outcome) + 1]_vars

C19_Witness ==
    /\ max_retries = MaxSleeps
    /\ Len(sent) = 2
    /\ sent[1].outcome = "transient"
    /\ sent[2].outcome = "fatal"
    /\ sent[2].batch = sent[1].batch
    /\ outcome = <<"failed">>
    /\ stats.retries = 1
    /\ stats.failed_chunks = Len(sent[2].units)

\* The n-th pending unit of the call: the n-th index of the list, in the order
\* of the list, that was not served from the cache.
PendingAt(n) == CHOOSE k \in 1..Len(Given) : k \notin hits /\ PendingOf(k) = n

\* The pending units [b * batch_size, (b + 1) * batch_size), counted from 0.
Slice(b) ==
    LET lo == b * batch_size
        hi == IF (b + 1) * batch_size < Pending THEN (b + 1) * batch_size ELSE Pending
    IN [n \in 1..(hi - lo) |-> PendingAt(lo + n)]

\* ceil(Pending / batch_size)
CeilBatches == CHOOSE n \in 0..Pending : n * batch_size >= Pending /\ (n - 1) * batch_size < Pending

\* C20: every remote attempt of a call sends batch b of the pending list, the
\* pending units [b * batch_size, (b + 1) * batch_size) in the order of the
\* list; when the call returns every pending unit was in exactly one batch,
\* only the last batch is shorter than batch_size, and a call whose attempts
\* all succeeded made ceil(pending / batch_size) remote calls.
C20_BatchPartitioning ==
    pc \in {"call", "returned"} =>
        /\ \A k \in 1..Len(sent) :
              /\ sent[k].batch % batch_size = 0
              /\ sent[k].units = Slice(sent[k].batch \div batch_size)
              /\ sent[k].units # <<>>
              /\ Len(sent[k].units) = batch_size \/ sent[k].batch + Len(sent[k].units) = Pending
        /\ pc = "returned" =>
              /\ \A n \in 1..Pending :
                    Cardinality({sent[k].batch : k \in {a \in 1..Len(sent) :
                        \E j \in 1..Len(sent[a].units) : sent[a].units[j] = PendingAt(n)}}) = 1
              /\ (\A k \in 1..Len(sent) : sent[k].outcome = "ok") => Len(sent) = CeilBatches

C20_Witness ==
    /\ pc = "returned"
    /\ batch_size = 2
    /\ Pending = 3
    /\ Len(sent) = 2
    /\ sent[1].units = <<1, 2>>
    /\ sent[2].units = <<3>>
    /\ outcome = <<"ok", "ok">>

\* C21: a call with at least one pending unit writes the cache file in exactly
\* one step, the step in which the last batch of the pending list has been
\* processed and the call returns, whether the batches succeeded or failed; a
\* call in which every unit is a cache hit sends nothing to the remote client
\* and leaves the cache file as it was.
C21_FlushOrdering ==
    /\ [](pc = "call" => Pending >= 1 /\ disk = start.file)
    /\ [](pc = "returned" =>
            IF Pending >= 1
            THEN /\ last.flushed
                 /\ disk = File(cache)
                 /\ old_disk = start.file
                 /\ Len(outcome) = NBatches
                 /\ sent # <<>>
            ELSE /\ ~last.flushed
                 /\ disk = start.file
                 /\ sent = <<>>
                 /\ stats.api_calls = start.stats.api_calls)
    /\ [][disk' # disk =>
            /\ pc = "call"
            /\ pc' = "returned"
            /\ Len(outcome') = NBatches
            /\ i + batch_size >= Len(chunks_to_embed)]_vars

C21_Witness ==
    /\ pc = "returned"
    /\ start.again
    /\ hits # {}
    /\ outcome = <<"ok", "failed">>
    /\ last.flushed
    /\ disk = File(cache)
    /\ prev.flushed

\* The remote attempts of the call that repeat an attempt of the same batch.
Reattempts == {k \in 1..Len(sent) : \E j \in 1..(k - 1) : sent[j].batch = sent[k].batch}

\* C22: the retries counter grows in a call by the number of remote attempts
\* made beyond the first attempt of each batch, also for the batches whose
\* retries were exhausted.
C22_RetriesCounter ==
    pc \in {"call", "returned"} =>
        stats.retries = start.stats.retries + Cardinality(Reattempts)

\* C23: the api_calls counter grows in a call by the number of requests sent
\* to the remote client, whatever their outcome.
C23_ApiCallsCounter ==
    pc \in {"call", "returned"} =>
        stats.api_calls = start.stats.api_calls + Len(sent)

\* The cache entry under a fingerprint is as it was when the call started.
EntryUntouched(key) ==
    IF key \in DOMAIN start.cache
    THEN key \in DOMAIN cache /\ cache[key] = start.cache[key]
    ELSE key \notin DOMAIN cache

\* The call has ended and the unit was newly embedded: the cache holds, under
\* the unit's fingerprint, an entry of the engine's model with the vector that
\* is now on the unit.
WrittenBack(k) ==
    /\ CacheKey(Given[k]) \in DOMAIN cache
    /\ cache[CacheKey(Given[k])].model = model
    /\ cache[CacheKey(Given[k])].dimension = dimension
    /\ cache[CacheKey(Given[k])].metadata = Given[k].metadata
    /\ chunks[k].embeddings = Some(cache[CacheKey(Given[k])].embedding)

\* C24 as stated: at the end of a call every newly embedded unit has its entry
\* in the cache, and the entry under the fingerprint of a unit of a failed
\* batch or of a cache-hit unit is as it was when the call started.
C24_CacheWriteBack ==
    pc = "returned" =>
        /\ \A k \in 1..Len(Given) : InBatch(k, "ok") => WrittenBack(k)
        /\ \A k \in 1..Len(Given) :
              (InBatch(k, "failed") \/ k \in hits) => EntryUntouched(CacheKey(Given[k]))

\* The fingerprints of the units the call newly embedded.
EmbeddedKeys == {CacheKey(Given[k]) : k \in {j \in 1..Len(Given) : InBatch(j, "ok")}}

\* C24, amended: at the end of a call every newly embedded unit has its entry
\* in the cache, and every entry under a fingerprint that no newly embedded
\* unit has is as it was when the call started; so is the entry of every
\* cache-hit unit.
C24_CacheWriteBackByFingerprint ==
    pc = "returned" =>
        /\ \A k \in 1..Len(Given) : InBatch(k, "ok") => WrittenBack(k)
        /\ \A key \in (DOMAIN cache \cup DOMAIN start.cache) \ EmbeddedKeys : EntryUntouched(key)
        /\ \A k \in 1..Len(Given) :
              (k \in hits \/ (InBatch(k, "failed") /\ CacheKey(Given[k]) \notin EmbeddedKeys))
                  => EntryUntouched(CacheKey(Given[k]))

C24_Witness ==
    /\ pc = "returned"
    /\ start.again
    /\ Len(Given) = MaxLen
    /\ hits = {1}
    /\ outcome = <<"ok", "failed">>
    /\ batch_size = 1
    /\ CacheKey(Given[2]) # CacheKey(Given[3])
    /\ CacheKey(Given[3]) \notin DOMAIN cache
    /\ Cardinality(DOMAIN cache) = 2

\* floor(len(text) / 4), summed over the units among the first k of the list
\* that the call newly embedded.
RECURSIVE EmbeddedTokens(_)
EmbeddedTokens(k) ==
    IF k = 0 THEN 0
    ELSE EmbeddedTokens(k - 1)
         + (IF InBatch(k, "ok") THEN Len(Given[k].content) \div 4 ELSE 0)

\* C25: at the end of every call, the early return and later calls on the same
\* engine included, total_cost is total_tokens times the price of a token, and
\* total_tokens has grown in the call by floor(len(text) / 4) for every unit
\* newly embedded; the statistics of a new engine and after a reset are zero.
C25_TotalCost ==
    /\ pc = "returned" =>
          /\ stats.total_cost = stats.total_tokens * PRICE_PER_TOKEN
          /\ stats.total_tokens = start.stats.total_tokens + EmbeddedTokens(Len(Given))
    /\ pc = "idle" => stats.total_tokens = 0 /\ stats.total_cost = 0

C25_Witness ==
    /\ pc = "returned"
    /\ start.again
    /\ Pending = 0
    /\ Len(Given) = MaxLen
    /\ sent = <<>>
    /\ start.stats.total_tokens = 4
    /\ stats.total_cost = 4 * PRICE_PER_TOKEN

\* C26: during and after a call the list holds the units it was given, in
\* their order, each with the text and the metadata it had when the call
\* started, whether the unit was served from the cache, embedded or failed;
\* the list returned is that list.
C26_OnlyTheVectorChanges ==
    pc \in {"call", "returned"} =>
        /\ Len(chunks) = Len(Given)
        /\ \A k \in 1..Len(Given) :
              /\ chunks[k].content = Given[k].content
              /\ chunks[k].metadata = Given[k].metadata
              /\ DOMAIN chunks[k] = DOMAIN Given[k]
        /\ (pc = "returned" /\ result # None) =>
              \A k \in 1..Len(result[1]) :
                  /\ result[1][k].content = Given[k].content
                  /\ result[1][k].metadata = Given[k].metadata

C26_Witness ==
    /\ pc = "returned"
    /\ start.again
    /\ Len(Given) = MaxLen
    /\ hits = {2}
    /\ \E k \in 1..Len(Given) : InBatch(k, "ok") /\ chunks[k].embeddings # Given[k].embeddings
    /\ \E k \in 1..Len(Given) : InBatch(k, "failed")
    /\ chunks[2].embeddings # None
    /\ chunks[2].metadata = Given[2].metadata

\* Two units of the list with the same text and metadata.
EqualUnits(k, j) == k # j /\ CacheKey(Given[k]) = CacheKey(Given[j])

\* C28 as stated: no two units with the same fingerprint are sent to the
\* remote client in one call.
C28_FingerprintSentOnce ==
    pc \in {"call", "returned"} =>
        \A k \in SentUnits : \A j \in SentUnits : ~EqualUnits(k, j)

\* C28, amended: units of the list with the same text and metadata are all
\* served from the cache or all pending; every pending unit is sent in the
\* batch it falls in, and the ones that were embedded carry the same vector,
\* which is the vector of the one cache entry they share.
C28_EqualUnitsAreAllSent ==
    pc = "returned" =>
        /\ SentUnits = (1..Len(Given)) \ hits
        /\ \A k \in 1..Len(Given) : \A j \in 1..Len(Given) :
              EqualUnits(k, j) =>
                 /\ k \in hits <=> j \in hits
                 /\ (InBatch(k, "ok") /\ InBatch(j, "ok")) =>
                       /\ chunks[k].embeddings = chunks[j].embeddings
                       /\ chunks[k].embeddings = Some(cache[CacheKey(Given[k])].embedding)

C28_Witness ==
    /\ pc = "returned"
    /\ Len(Given) = 2
    /\ EqualUnits(1, 2)
    /\ batch_size = 1
    /\ SentUnits = {1, 2}
    /\ outcome = <<"ok", "ok">>
    /\ Cardinality(DOMAIN cache) = 1
    /\ chunks[1].embeddings = chunks[2].embeddings

\* Both instances have run embed_chunks and written the cache file.
BothFlushed ==
    /\ parked # None
    /\ pc = "returned"
    /\ last.flushed
    /\ parked[1].pc = "returned"
    /\ parked[1].last.flushed

\* C27: when both instances have run embed_chunks and flushed, the cache file
\* holds every entry of the mapping of either instance.
C27_SharedCacheKeepsEveryEntry ==
    BothFlushed =>
        /\ disk.state = "json"
        /\ \A key \in DOMAIN cache : key \in DOMAIN disk.value /\ disk.value[key] = cache[key]
        /\ \A key \in DOMAIN parked[1].cache :
              key \in DOMAIN disk.value /\ disk.value[key] = parked[1].cache[key]

\* The flags of self.state a stage sets.
StageFlags(stage) ==
    IF stage = "pdf" THEN {"pdf_parsed", "markdown_generated"}
    ELSE IF stage = "chunking" THEN {"chunks_created"}
    ELSE IF stage = "embedding" THEN {"embeddings_generated"}
    ELSE {"vectors_stored"}

PipelineStages == {"pdf", "chunking", "embedding", "storage"}

\* C29: the flags of every stage that has completed are in the checkpoint
\* file; a run started with resume does not execute a stage that completed in
\* an earlier run; a flag is set only when its stage has returned success.
C29_PipelineResume ==
    pipeline # None =>
        /\ \A stage \in pipeline.completed : \A flag \in StageFlags(stage) :
              /\ pipeline.checkpoint.state = "json"
              /\ pipeline.checkpoint.value[flag]
        /\ pipeline.resume =>
              \A k \in 1..Len(pipeline.done) :
                  pipeline.done[k].stage \in pipeline.earlier => pipeline.done[k].skipped
        /\ \A stage \in PipelineStages : \A flag \in StageFlags(stage) :
              pipeline.state[flag] =>
                  \E k \in 1..Len(pipeline.done) :
                      pipeline.done[k].stage = stage /\ pipeline.done[k].ok

\* The chunks the embedding stage has written to the file of the embedded
\* chunks.
Embedded == pipeline.embedded_file[1]

\* C30: when the embedding stage has marked itself complete, every chunk it
\* has written carries a vector.
C30_EmbeddingStageComplete ==
    (pipeline # None /\ pipeline.embedded_file # None /\ pipeline.state.embeddings_generated) =>
        \A k \in 1..Len(Embedded) : Embedded[k].embeddings # None

====
